---- MODULE Spec2Model ----
\* check_whoami (plugins/modules/check_whoami.py): the retrying command
\* runner, the cluster-admin decision built on it, and the module entry
\* point that turns the decision into one result.
\*
\* Text is modelled as a sequence of one-character strings, so that
\* str.strip(), the "in" substring test, string equality and f-string
\* interpolation are computed rather than assumed.  Python's None is the
\* value None below, which is no text (it is not a sequence of characters).
EXTENDS Integers, Sequences, FiniteSets, TLC

\* ---------------------------------------------------------------------
\* Bounds
\* ---------------------------------------------------------------------

\* largest retries argument explored for a direct call of the runner
MaxRetries == 4

\* most run_command calls explored in one run
MaxCalls == 6

\* ---------------------------------------------------------------------
\* Program text
\* ---------------------------------------------------------------------

\* run_command_with_retries(module, command, retries=3, delay=3)
DefaultRetries == 3

DefaultDelay == 3

None == <<"NoneType">>

\* the character U+0060 (grave accent), which a string of this
\* language cannot hold; it stands for itself
Tick == "<U+0060>"

\* check_cluster_admin: user_command
UserCommand ==
    <<"o", "c", " ", "w", "h", "o", "a", "m", "i">>

\* check_cluster_admin: check_admin_command
CheckAdminCommand ==
    <<"o", "c", " ", "a", "u", "t", "h", " ", "c", "a", "n", "-", "i", " ",
      "'", "*", "'", " ", "'", "*", "'", " ", "-", "-", "a", "l", "l", "-",
      "n", "a", "m", "e", "s", "p", "a", "c", "e", "s">>

\* the privileged identity compared against user
SystemAdmin ==
    <<"s", "y", "s", "t", "e", "m", ":", "a", "d", "m", "i", "n">>

\* the substring looked for in admin_rights
Yes ==
    <<"y", "e", "s">>

\* what an f-string renders for None
NoneText ==
    <<"N", "o", "n", "e">>

\* the literal parts of the f-strings, in source order
RetryingIn ==
    <<"R", "e", "t", "r", "y", "i", "n", "g", " ", "i", "n", " ">>

SecondsDueToError ==
    <<" ", "s", "e", "c", "o", "n", "d", "s", " ", "d", "u", "e", " ", "t",
      "o", " ", "e", "r", "r", "o", "r", ":", " ">>

CommandFailedAfter ==
    <<"C", "o", "m", "m", "a", "n", "d", " ", "f", "a", "i", "l", "e", "d",
      " ", "a", "f", "t", "e", "r", " ">>

AttemptsColon ==
    <<" ", "a", "t", "t", "e", "m", "p", "t", "s", ":", " ">>

UnknownError ==
    <<"U", "n", "k", "n", "o", "w", "n", " ", "e", "r", "r", "o", "r">>

FailedToExecute ==
    <<"F", "a", "i", "l", "e", "d", " ", "t", "o", " ", "e", "x", "e", "c",
      "u", "t", "e", " ", Tick>>

EnsureOcConfigured ==
    <<Tick, ".", " ", "E", "n", "s", "u", "r", "e", " ", Tick, "o", "c", Tick,
      " ", "c", "l", "i", "e", "n", "t", " ", "i", "s", " ", "c", "o", "n",
      "f", "i", "g", "u", "r", "e", "d", " ", "c", "o", "r", "r", "e", "c",
      "t", "l", "y", ".">>

FailedToVerify ==
    <<"F", "a", "i", "l", "e", "d", " ", "t", "o", " ", "v", "e", "r", "i",
      "f", "y", " ", "c", "l", "u", "s", "t", "e", "r", "-", "a", "d", "m",
      "i", "n", " ", "r", "i", "g", "h", "t", "s", ".", " ", "E", "r", "r",
      "o", "r", ":", " ">>

NotAuthorizedMsg ==
    <<"U", "s", "e", "r", " ", "d", "o", "e", "s", " ", "n", "o", "t", " ",
      "h", "a", "v", "e", " ", Tick, "c", "l", "u", "s", "t", "e", "r", "-",
      "a", "d", "m", "i", "n", Tick, " ", "r", "i", "g", "h", "t", "s", ".">>

CurrentUser ==
    <<"C", "u", "r", "r", "e", "n", "t", " ", "u", "s", "e", "r", " ", Tick>>

DoesNotHaveRights ==
    <<Tick, " ", "d", "o", "e", "s", " ", "n", "o", "t", " ", "h", "a", "v",
      "e", " ", Tick, "c", "l", "u", "s", "t", "e", "r", "-", "a", "d", "m",
      "i", "n", Tick, " ", "r", "i", "g", "h", "t", "s", ".", " ">>

UserTick ==
    <<"U", "s", "e", "r", " ", Tick>>

HasPrivileges ==
    <<Tick, " ", "h", "a", "s", " ", Tick, "c", "l", "u", "s", "t", "e", "r",
      "-", "a", "d", "m", "i", "n", Tick, " ", "p", "r", "i", "v", "i", "l",
      "e", "g", "e", "s", ".">>

\* ---------------------------------------------------------------------
\* The environment: what module.run_command may hand back
\* ---------------------------------------------------------------------

\* texts the external commands may print
OutYes ==
    <<"y", "e", "s", "\n">>

OutNo ==
    <<"n", "o", "\n">>

OutYesPlease ==
    <<"Y", "e", "s", " ", "p", "l", "e", "a", "s", "e">>

OutSystemAdmin ==
    <<" ", " ", "s", "y", "s", "t", "e", "m", ":", "a", "d", "m", "i", "n",
      "\n">>

OutAlice ==
    <<"a", "l", "i", "c", "e", "\n">>

OutBlank ==
    <<" ", "\n">>

ErrTimeout ==
    <<" ", " ", "t", "i", "m", "e", "o", "u", "t", "\n">>

ErrDenied ==
    <<"d", "e", "n", "i", "e", "d">>

ExitCodes == {0, 1}

StdoutPool ==
    {OutYes, OutNo, OutYesPlease, OutSystemAdmin, OutAlice, OutBlank}

StderrPool == {ErrTimeout, ErrDenied, <<>>}

\* what the mocked host of a repeated run may answer
MockedStdout == {OutSystemAdmin, OutNo}

MockedStderr == {ErrTimeout, ErrDenied}

Commands == {UserCommand, CheckAdminCommand}

Delays == {0, DefaultDelay}

\* ---------------------------------------------------------------------
\* Python built-ins used by the module
\* ---------------------------------------------------------------------

\* the characters str.strip() removes when called without arguments
IsSpace(c) == c \in {" ", "\t", "\n", "\r", "\f"}

RECURSIVE LStrip(_)
LStrip(s) ==
    IF s # <<>> /\ IsSpace(Head(s)) THEN LStrip(Tail(s)) ELSE s

RECURSIVE RStrip(_)
RStrip(s) ==
    IF s # <<>> /\ IsSpace(s[Len(s)])
    THEN RStrip(SubSeq(s, 1, Len(s) - 1))
    ELSE s

\* str.strip()
Strip(s) == RStrip(LStrip(s))

UpperLetters ==
    <<"A", "B", "C", "D", "E", "F", "G", "H", "I", "J", "K", "L", "M", "N",
      "O", "P", "Q", "R", "S", "T", "U", "V", "W", "X", "Y", "Z">>

LowerLetters ==
    <<"a", "b", "c", "d", "e", "f", "g", "h", "i", "j", "k", "l", "m", "n",
      "o", "p", "q", "r", "s", "t", "u", "v", "w", "x", "y", "z">>

LowerChar(c) ==
    IF \E i \in DOMAIN UpperLetters : UpperLetters[i] = c
    THEN LowerLetters[CHOOSE i \in DOMAIN UpperLetters : UpperLetters[i] = c]
    ELSE c

Lower(s) == [i \in DOMAIN s |-> LowerChar(s[i])]

\* the substring test as it would be if it ignored case
ContainsIgnoringCase(hay, needle) ==
    \E i \in 0..(Len(hay) - Len(needle)) :
        Lower(SubSeq(hay, i + 1, i + Len(needle))) = Lower(needle)

\* needle in hay
Contains(hay, needle) ==
    \E i \in 0..(Len(hay) - Len(needle)) :
        SubSeq(hay, i + 1, i + Len(needle)) = needle

Digit(d) ==
    CASE d = 0 -> "0" [] d = 1 -> "1" [] d = 2 -> "2" [] d = 3 -> "3"
      [] d = 4 -> "4" [] d = 5 -> "5" [] d = 6 -> "6" [] d = 7 -> "7"
      [] d = 8 -> "8" [] d = 9 -> "9"

RECURSIVE NatStr(_)
NatStr(n) ==
    IF n < 10 THEN <<Digit(n)>> ELSE NatStr(n \div 10) \o <<Digit(n % 10)>>

\* an integer interpolated in an f-string
IntStr(n) == IF n < 0 THEN <<"-">> \o NatStr(0 - n) ELSE NatStr(n)

\* a text or None interpolated in an f-string
Format(v) == IF v = None THEN NoneText ELSE v

\* the truth value of a text or None, as "if error:" takes it
Truthy(v) == v # None /\ v # <<>>

\* ---------------------------------------------------------------------
\* The expressions of run_command_with_retries and check_cluster_admin
\* ---------------------------------------------------------------------

\* the success return as it would be without the strip() call
SuccessResultUnstripped(out) == <<out, None>>

\* return stdout.strip(), None
SuccessResult(out) == <<Strip(out), None>>

\* the retry test as it would be with the bound off by one
CanRetryThroughLast(a, n) == a < n

\* attempt < retries - 1
CanRetry(a, n) == a < n - 1

\* the warning as it would be without the strip() call
WarnTextUnstripped(d, err) ==
    RetryingIn \o IntStr(d) \o SecondsDueToError \o err

\* f"Retrying in {delay} seconds due to error: {stderr.strip()}"
WarnText(d, err) ==
    RetryingIn \o IntStr(d) \o SecondsDueToError \o Strip(err)

\* the terminal failure as it would be if it returned the bare stderr
FailureResultBare(n, err) == <<None, Strip(err)>>

\* return None, f"Command failed after {retries} attempts: {stderr.strip()}"
FailureResult(n, err) ==
    <<None, CommandFailedAfter \o IntStr(n) \o AttemptsColon \o Strip(err)>>

\* return None, "Unknown error"
FallThroughResult == <<None, UnknownError>>

\* the identity failure as it would be if it passed the runner's
\* message on, the way the permission failure does
IdentityFailureDetailed(e) ==
    <<None, FailedToExecute \o UserCommand \o EnsureOcConfigured \o Format(e)>>

\* return None, f"Failed to execute ... {user_command} ... Ensure ..."
IdentityFailure(e) ==
    <<None, FailedToExecute \o UserCommand \o EnsureOcConfigured>>

\* the permission failure as it would be with a fixed message
PermissionFailureGeneric(e) == <<None, FailedToVerify>>

\* return None, f"Failed to verify cluster-admin rights. Error: {error}"
PermissionFailure(e) == <<None, FailedToVerify \o Format(e)>>

\* the policy as it would be with "and" in place of "or"
AuthorizedBoth(rights, u) == Contains(rights, Yes) /\ u = SystemAdmin

\* "yes" in admin_rights or user == "system:admin"
Authorized(rights, u) == Contains(rights, Yes) \/ u = SystemAdmin

\* the last two returns of check_cluster_admin
Decision(rights, u) ==
    IF Authorized(rights, u) THEN <<u, None>> ELSE <<u, NotAuthorizedMsg>>

\* f"Current user ... {user} ... does not have ... rights. {error}"
FailMsg(u, e) ==
    CurrentUser \o Format(u) \o DoesNotHaveRights \o Format(e)

\* f"User ... {user} ... has ... privileges."
ExitMsg(u) == UserTick \o Format(u) \o HasPrivileges

\* where control is after module.fail_json(...): the call ends the
\* process, so the statement after the if is not reached
AfterFailJson == "exited"

\* ---------------------------------------------------------------------
\* State
\* ---------------------------------------------------------------------

VARIABLES
    pc,            \* where control is
    site,          \* who called run_command_with_retries
    command,       \* run_command_with_retries: its arguments
    retries,
    delay,
    attempt,       \* the loop variable; -1 until the loop is entered
    rc,            \* the locals bound by module.run_command
    stdout,
    stderr,
    ret,           \* the pair run_command_with_retries returned
    user,          \* check_cluster_admin: its locals
    admin_rights,
    error,
    outcome,       \* the pair check_cluster_admin returned
    log,           \* the calls made to the host: run_command, warn,
                   \* sleep, fail_json, exit_json, in order
    rcs,           \* the exit code each run_command call returned, in order
    invocation,    \* which run of the module this is, when it is run again
                   \* against the same mocked commands
    responses,     \* what the mocked run_command has answered in this run
    first          \* what the first run did, once it is over

vars ==
    <<pc, site, command, retries, delay, attempt, rc, stdout, stderr, ret,
      user, admin_rights, error, outcome, log, rcs, invocation, responses,
      first>>

runnerArgs == <<command, retries, delay, site>>

runnerLocals == <<attempt, rc, stdout, stderr>>

ccaLocals == <<user, admin_rights, error, outcome>>

replay == <<invocation, responses, first>>

\* where a return of run_command_with_retries continues
ReturnTo(s) ==
    CASE s = "user" -> "cca_user"
      [] s = "admin" -> "cca_admin"
      [] OTHER -> "done"

\* the call as it would be if the attempt counter outlived a call
EnterSharedBudget(cmd, s) ==
    /\ command' = cmd
    /\ retries' = DefaultRetries
    /\ delay' = DefaultDelay
    /\ site' = s
    /\ attempt' = attempt
    /\ rc' = None
    /\ stdout' = None
    /\ stderr' = None
    /\ pc' = "rcwr_for"

\* run_command_with_retries(module, cmd): a call with the default policy
Enter(cmd, s) ==
    /\ command' = cmd
    /\ retries' = DefaultRetries
    /\ delay' = DefaultDelay
    /\ site' = s
    /\ attempt' = -1
    /\ rc' = None
    /\ stdout' = None
    /\ stderr' = None
    /\ pc' = "rcwr_for"

\* ---------------------------------------------------------------------
\* run_command_with_retries
\* ---------------------------------------------------------------------

\* the loop header as it would be if the loop variable never advanced
RcwrForNoAdvance ==
    /\ pc = "rcwr_for"
    /\ IF attempt + 1 < retries
       THEN /\ pc' = "rcwr_run"
            /\ UNCHANGED <<attempt, ret>>
       ELSE /\ ret' = FallThroughResult
            /\ pc' = ReturnTo(site)
            /\ UNCHANGED attempt
    /\ UNCHANGED <<runnerArgs, rc, stdout, stderr, ccaLocals, log, rcs, replay>>

\* the loop header as it would be over range(retries + 1)
RcwrForOneMore ==
    /\ pc = "rcwr_for"
    /\ IF attempt + 1 <= retries
       THEN /\ attempt' = attempt + 1
            /\ pc' = "rcwr_run"
            /\ UNCHANGED ret
       ELSE /\ ret' = FallThroughResult
            /\ pc' = ReturnTo(site)
            /\ UNCHANGED attempt
    /\ UNCHANGED <<runnerArgs, rc, stdout, stderr, ccaLocals, log, rcs, replay>>

\* for attempt in range(retries): the next value, or the fall-through
\* return once the range is used up
RcwrFor ==
    /\ pc = "rcwr_for"
    /\ IF attempt + 1 < retries
       THEN /\ attempt' = attempt + 1
            /\ pc' = "rcwr_run"
            /\ UNCHANGED ret
       ELSE /\ ret' = FallThroughResult
            /\ pc' = ReturnTo(site)
            /\ UNCHANGED attempt
    /\ UNCHANGED <<runnerArgs, rc, stdout, stderr, ccaLocals, log, rcs, replay>>

\* rc, stdout, stderr = module.run_command(command), where the command
\* exits with code c having written o and e
RunCommand(c, o, e) ==
    /\ pc = "rcwr_run"
    /\ Len(rcs) < MaxCalls
    /\ rc' = c
    /\ stdout' = o
    /\ stderr' = e
    /\ rcs' = Append(rcs, c)
    /\ log' = Append(log, [op |-> "run_command", arg |-> command])
    /\ pc' = "rcwr_test"
    /\ UNCHANGED <<runnerArgs, attempt, ret, ccaLocals>>

\* the call against the real host: any exit code and any output
RcwrRunCommand ==
    /\ \E c \in ExitCodes, o \in StdoutPool, e \in StderrPool :
          RunCommand(c, o, e)
    /\ UNCHANGED replay

\* the call against a mocked host that keeps what it answered, and in a
\* second run answers what it answered in the first
RcwrRunCommandMocked ==
    /\ \E c \in ExitCodes, o \in MockedStdout, e \in MockedStderr :
          /\ (invocation = 2 /\ Len(responses) < Len(first.responses))
                => <<c, o, e>> = first.responses[Len(responses) + 1]
          /\ RunCommand(c, o, e)
          /\ responses' = Append(responses, <<c, o, e>>)
    /\ UNCHANGED <<invocation, first>>

\* if rc == 0: return stdout.strip(), None
RcwrSuccess ==
    /\ pc = "rcwr_test"
    /\ rc = 0
    /\ ret' = SuccessResult(stdout)
    /\ pc' = ReturnTo(site)
    /\ UNCHANGED <<runnerArgs, runnerLocals, ccaLocals, log, rcs, replay>>

\* the warning branch as it would be if the success test did not return
RcwrWarnAfterSuccess ==
    /\ pc = "rcwr_test"
    /\ CanRetry(attempt, retries)
    /\ log' = Append(log, [op |-> "warn", arg |-> WarnText(delay, stderr)])
    /\ pc' = "rcwr_sleep"
    /\ UNCHANGED <<runnerArgs, runnerLocals, ret, ccaLocals, rcs, replay>>

\* if attempt < retries - 1: module.warn(...)
RcwrWarn ==
    /\ pc = "rcwr_test"
    /\ rc # 0
    /\ CanRetry(attempt, retries)
    /\ log' = Append(log, [op |-> "warn", arg |-> WarnText(delay, stderr)])
    /\ pc' = "rcwr_sleep"
    /\ UNCHANGED <<runnerArgs, runnerLocals, ret, ccaLocals, rcs, replay>>

\* time.sleep(delay)
RcwrSleep ==
    /\ pc = "rcwr_sleep"
    /\ log' = Append(log, [op |-> "sleep", arg |-> delay])
    /\ pc' = "rcwr_for"
    /\ UNCHANGED <<runnerArgs, runnerLocals, ret, ccaLocals, rcs, replay>>

\* else: return None, f"Command failed after {retries} attempts: ..."
RcwrFail ==
    /\ pc = "rcwr_test"
    /\ rc # 0
    /\ ~CanRetry(attempt, retries)
    /\ ret' = FailureResult(retries, stderr)
    /\ pc' = ReturnTo(site)
    /\ UNCHANGED <<runnerArgs, runnerLocals, ccaLocals, log, rcs, replay>>

\* ---------------------------------------------------------------------
\* check_cluster_admin and run_module
\* ---------------------------------------------------------------------

\* module = AnsibleModule(argument_spec={}); check_cluster_admin(module)
\* up to its first call: run_command_with_retries(module, user_command)
RmStart ==
    /\ pc = "rm_start"
    /\ Enter(UserCommand, "user")
    /\ UNCHANGED <<ret, ccaLocals, log, rcs, replay>>

\* the first step as it would be if it tested user in place of error
CcaUserReturnedTestsUser ==
    /\ pc = "cca_user"
    /\ user' = ret[1]
    /\ error' = ret[2]
    /\ IF Truthy(ret[1])
       THEN /\ outcome' = IdentityFailure(ret[2])
            /\ pc' = "rm_test"
            /\ UNCHANGED <<runnerArgs, runnerLocals>>
       ELSE /\ Enter(CheckAdminCommand, "admin")
            /\ UNCHANGED outcome
    /\ UNCHANGED <<ret, admin_rights, log, rcs, replay>>

\* user, error = <the runner's pair>; if error: return None, ...;
\* otherwise on to run_command_with_retries(module, check_admin_command)
CcaUserReturned ==
    /\ pc = "cca_user"
    /\ user' = ret[1]
    /\ error' = ret[2]
    /\ IF Truthy(ret[2])
       THEN /\ outcome' = IdentityFailure(ret[2])
            /\ pc' = "rm_test"
            /\ UNCHANGED <<runnerArgs, runnerLocals>>
       ELSE /\ Enter(CheckAdminCommand, "admin")
            /\ UNCHANGED outcome
    /\ UNCHANGED <<ret, admin_rights, log, rcs, replay>>

\* the second step as it would be if a permission failure still
\* returned the user
CcaAdminReturnedKeepsUser ==
    /\ pc = "cca_admin"
    /\ admin_rights' = ret[1]
    /\ error' = ret[2]
    /\ outcome' = IF Truthy(ret[2])
                  THEN <<user, FailedToVerify \o Format(ret[2])>>
                  ELSE Decision(ret[1], user)
    /\ pc' = "rm_test"
    /\ UNCHANGED <<runnerArgs, runnerLocals, ret, user, log, rcs, replay>>

\* admin_rights, error = <the runner's pair>; if error: return None, ...;
\* otherwise the authorization policy
CcaAdminReturned ==
    /\ pc = "cca_admin"
    /\ admin_rights' = ret[1]
    /\ error' = ret[2]
    /\ outcome' = IF Truthy(ret[2])
                  THEN PermissionFailure(ret[2])
                  ELSE Decision(ret[1], user)
    /\ pc' = "rm_test"
    /\ UNCHANGED <<runnerArgs, runnerLocals, ret, user, log, rcs, replay>>

\* the test of run_module as it would be if it looked at user only
RmIfNoUser ==
    /\ pc = "rm_test"
    /\ pc' = IF ~Truthy(outcome[1]) THEN "rm_fail_json" ELSE "rm_exit_json"
    /\ UNCHANGED <<runnerArgs, runnerLocals, ret, ccaLocals, log, rcs, replay>>

\* user, error = check_cluster_admin(module); if error:
RmIfError ==
    /\ pc = "rm_test"
    /\ pc' = IF Truthy(outcome[2]) THEN "rm_fail_json" ELSE "rm_exit_json"
    /\ UNCHANGED <<runnerArgs, runnerLocals, ret, ccaLocals, log, rcs, replay>>

\* module.fail_json(msg=...)
RmFailJson ==
    /\ pc = "rm_fail_json"
    /\ log' = Append(log, [op |-> "fail_json",
                           arg |-> [msg |-> FailMsg(outcome[1], outcome[2])]])
    /\ pc' = AfterFailJson
    /\ UNCHANGED <<runnerArgs, runnerLocals, ret, ccaLocals, rcs, replay>>

\* module.exit_json(changed=False, message=...), the last statement
RmExitJson ==
    /\ pc = "rm_exit_json"
    /\ log' = Append(log, [op |-> "exit_json",
                           arg |-> [changed |-> FALSE,
                                    message |-> ExitMsg(outcome[1])]])
    /\ pc' = "exited"
    /\ UNCHANGED <<runnerArgs, runnerLocals, ret, ccaLocals, rcs, replay>>

\* ---------------------------------------------------------------------
\* Specifications
\* ---------------------------------------------------------------------

Blank ==
    /\ rc = None
    /\ stdout = None
    /\ stderr = None
    /\ ret = None
    /\ user = None
    /\ admin_rights = None
    /\ error = None
    /\ outcome = None
    /\ attempt = -1
    /\ log = <<>>
    /\ rcs = <<>>
    /\ invocation = 1
    /\ responses = <<>>
    /\ first = None

\* one run of the module: run_module() called from the __main__ guard
Init ==
    /\ pc = "rm_start"
    /\ site = "none"
    /\ command = None
    /\ retries = DefaultRetries
    /\ delay = DefaultDelay
    /\ Blank

Next ==
    \/ RmStart
    \/ RcwrFor
    \/ RcwrRunCommand
    \/ RcwrSuccess
    \/ RcwrWarn
    \/ RcwrSleep
    \/ RcwrFail
    \/ CcaUserReturned
    \/ CcaAdminReturned
    \/ RmIfError
    \/ RmFailJson
    \/ RmExitJson

Spec == Init /\ [][Next]_vars

\* one call of run_command_with_retries with any command and policy
InitRunner ==
    /\ pc = "rcwr_for"
    /\ site = "direct"
    /\ command \in Commands
    /\ retries \in (-1)..MaxRetries
    /\ delay \in Delays
    /\ Blank

NextRunner ==
    \/ RcwrFor
    \/ RcwrRunCommand
    \/ RcwrSuccess
    \/ RcwrWarn
    \/ RcwrSleep
    \/ RcwrFail

SpecRunner == InitRunner /\ [][NextRunner]_vars

\* the module run to its end, every step being taken in the end: the
\* commands return and the delays elapse
SpecLive == Init /\ [][Next]_vars /\ WF_vars(Next)

\* the module is run a second time, in a new process, against the mocked
\* host of the first run
Rerun ==
    /\ pc = "exited"
    /\ invocation = 1
    /\ first' = [outcome |-> outcome, log |-> log, responses |-> responses]
    /\ invocation' = 2
    /\ responses' = <<>>
    /\ log' = <<>>
    /\ rcs' = <<>>
    /\ ret' = None
    /\ user' = None
    /\ admin_rights' = None
    /\ error' = None
    /\ outcome' = None
    /\ pc' = "rm_start"
    /\ UNCHANGED <<runnerArgs, runnerLocals>>

NextRerun ==
    \/ RmStart
    \/ RcwrFor
    \/ RcwrRunCommandMocked
    \/ RcwrSuccess
    \/ RcwrWarn
    \/ RcwrSleep
    \/ RcwrFail
    \/ CcaUserReturned
    \/ CcaAdminReturned
    \/ RmIfError
    \/ RmFailJson
    \/ RmExitJson
    \/ Rerun

SpecRerun == Init /\ [][NextRerun]_vars

\* ---------------------------------------------------------------------
\* Vocabulary of the properties
\* ---------------------------------------------------------------------

\* the positions of the log holding a call of the given kind
Calls(kind) == {i \in DOMAIN log : log[i].op = kind}

NumExecutions == Cardinality(Calls("run_command"))

NumWarnings == Cardinality(Calls("warn"))

NumDelays == Cardinality(Calls("sleep"))

\* the exit code returned to the run_command call at position i of the log
RcOf(i) == rcs[Cardinality({j \in 1..i : log[j].op = "run_command"})]

LastCall == log[Len(log)].op

\* taking i characters off the front of s and j off its end takes off
\* whitespace only, and leaves no whitespace at either end
TrimsAt(s, i, j) ==
    /\ i + j <= Len(s)
    /\ \A k \in 1..i : IsSpace(s[k])
    /\ \A k \in (Len(s) - j + 1)..Len(s) : IsSpace(s[k])
    /\ i + j < Len(s) => ~IsSpace(s[i + 1]) /\ ~IsSpace(s[Len(s) - j])

\* t is s without its leading and trailing whitespace, said without
\* running Strip
IsTrimOf(t, s) ==
    \E i \in 0..Len(s), j \in 0..Len(s) :
        /\ TrimsAt(s, i, j)
        /\ t = SubSeq(s, i + 1, Len(s) - j)

DigitValue(c) ==
    CASE c = "0" -> 0 [] c = "1" -> 1 [] c = "2" -> 2 [] c = "3" -> 3
      [] c = "4" -> 4 [] c = "5" -> 5 [] c = "6" -> 6 [] c = "7" -> 7
      [] c = "8" -> 8 [] c = "9" -> 9 [] OTHER -> -1

\* the number a run of decimal digits denotes, -1 if it is not one
RECURSIVE DecimalValue(_)
DecimalValue(ds) ==
    IF ds = <<>> THEN -1
    ELSE IF DigitValue(ds[Len(ds)]) < 0 THEN -1
    ELSE IF Len(ds) = 1 THEN DigitValue(ds[1])
    ELSE IF DecimalValue(SubSeq(ds, 1, Len(ds) - 1)) < 0 THEN -1
    ELSE 10 * DecimalValue(SubSeq(ds, 1, Len(ds) - 1)) + DigitValue(ds[Len(ds)])

\* msg is "Command failed after <n> attempts: <t>" where t is err trimmed
\* and <n> is a decimal numeral of n
IsAttemptCountFailure(msg, n, err) ==
    \E i \in 0..Len(err), j \in 0..Len(err) :
        /\ TrimsAt(err, i, j)
        /\ LET t == SubSeq(err, i + 1, Len(err) - j)
               from == Len(CommandFailedAfter) + 1
               to == Len(msg) - Len(AttemptsColon) - Len(t)
           IN  /\ from <= to
               /\ DecimalValue(SubSeq(msg, from, to)) = n
               /\ msg = CommandFailedAfter \o SubSeq(msg, from, to)
                          \o AttemptsColon \o t

\* the direct call has returned
Returned == pc = "done"

\* every run_command call of the direct call exited non-zero, but the
\* last one
FailedUntilLast ==
    /\ rcs # <<>>
    /\ \A i \in 1..(Len(rcs) - 1) : rcs[i] # 0

\* ---------------------------------------------------------------------
\* Properties of run_command_with_retries (SpecRunner)
\* ---------------------------------------------------------------------

\* C1: when attempts 1..N-1 exit non-zero and attempt N = retries exits
\* zero, the runner returns (stdout of attempt N trimmed, None) and exactly
\* N-1 delays have occurred.
C1_SuccessOnLastAttempt ==
    (Returned /\ retries >= 1 /\ Len(rcs) = retries /\ FailedUntilLast
        /\ rcs[Len(rcs)] = 0)
    => /\ ret[2] = None
       /\ IsTrimOf(ret[1], stdout)
       /\ NumDelays = retries - 1

C1_Witness ==
    /\ Returned
    /\ retries = 3
    /\ rcs = <<1, 1, 0>>
    /\ stdout = OutSystemAdmin
    /\ ret = <<SystemAdmin, None>>
    /\ NumDelays = 2

\* C2: when all N = retries attempts exit non-zero, the runner returns
\* (None, message) where the message is the attempt-count failure naming N
\* and the trimmed stderr of the last attempt; exactly N-1 delays have
\* occurred and the last call made is the final run_command, not a delay.
C2_AllAttemptsFail ==
    (Returned /\ retries >= 1 /\ Len(rcs) = retries /\ FailedUntilLast
        /\ rcs[Len(rcs)] # 0)
    => /\ ret[1] = None
       /\ IsAttemptCountFailure(ret[2], retries, stderr)
       /\ NumDelays = retries - 1
       /\ LastCall = "run_command"

\* three failures, the earlier ones with another stderr than the last
C2_Witness ==
    /\ Returned
    /\ retries = 3
    /\ rcs = <<1, 1, 1>>
    /\ stderr = ErrDenied
    /\ log[2].op = "warn"
    /\ log[2].arg = WarnText(delay, ErrTimeout)
    /\ ~Contains(ret[2], Strip(ErrTimeout))
    /\ Contains(ret[2], ErrDenied)
    /\ Contains(ret[2], <<"3">>)

\* C3: an exit code of 0 is the last thing that happens in a call: it is
\* the exit code of the last run_command, no warning or delay follows it,
\* the command has run exactly as many times as it took to get it, and
\* the value returned is that attempt's stdout, trimmed.
C3_FirstSuccessEndsRun ==
    \A k \in DOMAIN rcs :
        rcs[k] = 0 =>
            /\ k = Len(rcs)
            /\ NumExecutions = k
            /\ k <= retries
            /\ LastCall = "run_command"
            /\ pc \in {"rcwr_test", "done"}
            /\ Returned => ret[2] = None /\ IsTrimOf(ret[1], stdout)

\* success at the second of four attempts, after one failure
C3_Witness ==
    /\ Returned
    /\ retries = 4
    /\ rcs = <<1, 0>>
    /\ stdout = OutYes
    /\ ret = <<Yes, None>>
    /\ NumExecutions = 2
    /\ NumWarnings = 1
    /\ NumDelays = 1

\* ---------------------------------------------------------------------
\* Properties of check_cluster_admin and run_module (Spec)
\* ---------------------------------------------------------------------

No ==
    <<"n", "o">>

YesPlease ==
    <<"Y", "e", "s", " ", "p", "l", "e", "a", "s", "e">>

Alice ==
    <<"a", "l", "i", "c", "e">>

Ensure ==
    <<"E", "n", "s", "u", "r", "e">>

\* check_cluster_admin has returned to run_module
CheckReturned == pc \in {"rm_test", "rm_fail_json", "rm_exit_json", "exited"}

NumSucceeded == Cardinality({i \in DOMAIN rcs : rcs[i] = 0})

\* the identity command and then the permission command exited 0
BothSucceeded == CheckReturned /\ NumSucceeded = 2

\* the identity command exited non-zero three times
IdentityExhausted ==
    /\ Len(rcs) >= 3
    /\ \A i \in 1..3 : rcs[i] # 0

\* the identity command exited 0 at its attempt k, and the permission
\* command then exited non-zero three times
PermissionExhausted ==
    \E k \in 1..3 :
        /\ Len(rcs) = k + 3
        /\ \A i \in DOMAIN rcs : rcs[i] = 0 <=> i = k

GenericIdentityMsg == FailedToExecute \o UserCommand \o EnsureOcConfigured

\* C4: when both commands succeed, check_cluster_admin returns
\* (user, None) exactly if the trimmed permission output contains "yes"
\* or the trimmed identity output is "system:admin", and otherwise
\* (user, the not-authorized message); system:admin with "no" and alice
\* with "yes" are authorized, alice with "no" is not.
C4_AuthorizationPolicy ==
    BothSucceeded =>
        /\ user # None
        /\ outcome[1] = user
        /\ IsTrimOf(admin_rights, stdout)
        /\ outcome[2] = None
             <=> (Contains(admin_rights, Yes) \/ user = SystemAdmin)
        /\ outcome[2] # None => outcome[2] = NotAuthorizedMsg
        /\ (user = SystemAdmin /\ admin_rights = No)
             => outcome = <<SystemAdmin, None>>
        /\ (user = Alice /\ admin_rights = Yes) => outcome = <<Alice, None>>
        /\ (user = Alice /\ admin_rights = No)
             => outcome = <<Alice, NotAuthorizedMsg>>

\* scenario A: system:admin, whose permission query answers no
C4_Witness ==
    /\ BothSucceeded
    /\ user = SystemAdmin
    /\ stdout = OutNo
    /\ admin_rights = No
    /\ outcome = <<SystemAdmin, None>>

\* C5 as stated: a permission output of "yes" or of "Yes please"
\* authorizes any identity.
C5_YesPleaseAuthorizes ==
    (BothSucceeded /\ admin_rights \in {Yes, YesPlease}) => outcome[2] = None

\* C5 as amended: a permission output of "yes" authorizes any identity;
\* "Yes please" holds no lower-case "yes", so it authorizes system:admin
\* only and every other identity gets the not-authorized message.
C5_OnlyLowerCaseYesAuthorizes ==
    BothSucceeded =>
        /\ admin_rights = Yes => outcome = <<user, None>>
        /\ admin_rights = YesPlease =>
              /\ outcome[1] = user
              /\ outcome[2] = None <=> user = SystemAdmin
              /\ user # SystemAdmin => outcome[2] = NotAuthorizedMsg

C5_Witness ==
    /\ BothSucceeded
    /\ user = Alice
    /\ admin_rights = YesPlease
    /\ outcome = <<Alice, NotAuthorizedMsg>>

\* C6: every execution of the permission command comes after an
\* execution of the identity command that exited 0; once the identity
\* command has failed three times only that command has ever been
\* executed, and the outcome is (None, a message containing "Ensure").
C6_PermissionOnlyAfterIdentity ==
    /\ \A i \in Calls("run_command") :
          log[i].arg = CheckAdminCommand =>
             \E j \in 1..(i - 1) :
                /\ log[j].op = "run_command"
                /\ log[j].arg = UserCommand
                /\ RcOf(j) = 0
    /\ IdentityExhausted =>
          /\ NumExecutions = 3
          /\ \A i \in Calls("run_command") : log[i].arg = UserCommand
          /\ CheckReturned =>
                /\ outcome[1] = None
                /\ Contains(outcome[2], Ensure)

C6_Witness ==
    /\ pc = "exited"
    /\ IdentityExhausted
    /\ NumExecutions = 3
    /\ outcome[1] = None
    /\ Contains(outcome[2], Ensure)

\* C7: when the identity command has failed three times, the outcome is
\* (None, one fixed text) whatever the stderr of the attempts was, and
\* the runner's own failure message is no part of it.
C7_IdentityFailureIsGeneric ==
    (CheckReturned /\ IdentityExhausted) =>
        /\ outcome = <<None, GenericIdentityMsg>>
        /\ IsAttemptCountFailure(ret[2], 3, stderr)
        /\ ~Contains(outcome[2], ret[2])

\* the attempts wrote different texts to stderr, none of which shows
C7_Witness ==
    /\ CheckReturned
    /\ IdentityExhausted
    /\ stderr = ErrDenied
    /\ log[2].arg = WarnText(DefaultDelay, ErrTimeout)
    /\ outcome = <<None, GenericIdentityMsg>>
    /\ ~Contains(outcome[2], ErrDenied)

\* C8: when the identity command succeeds and the permission command
\* fails three times, the outcome is (None, "Failed to verify
\* cluster-admin rights. Error: " followed by the runner's message), and
\* that message names 3 attempts and the last attempt's trimmed stderr.
C8_PermissionFailureIsDetailed ==
    (CheckReturned /\ PermissionExhausted) =>
        /\ outcome[1] = None
        /\ outcome[2] = FailedToVerify \o ret[2]
        /\ IsAttemptCountFailure(ret[2], 3, stderr)
        /\ Contains(outcome[2], <<"3">>)
        /\ \E n \in 0..Len(stderr) :
              /\ IsTrimOf(SubSeq(outcome[2], Len(outcome[2]) - n + 1,
                                 Len(outcome[2])), stderr)

C8_Witness ==
    /\ CheckReturned
    /\ PermissionExhausted
    /\ user = Alice
    /\ stderr = ErrTimeout
    /\ outcome[1] = None
    /\ Contains(outcome[2], CommandFailedAfter \o <<"3">> \o AttemptsColon
                              \o <<"t", "i", "m", "e", "o", "u", "t">>)

Results == Calls("fail_json") \cup Calls("exit_json")

\* C9: a run of the module emits one result: none while it runs, and
\* once it has ended exactly one, as its last call: a failed one exactly
\* if check_cluster_admin returned an error, else a success with
\* changed = false.
C9_ExactlyOneResult ==
    /\ Cardinality(Results) <= 1
    /\ pc # "exited" => Results = {}
    /\ pc = "exited" =>
          /\ Results = {Len(log)}
          /\ LastCall = "fail_json" <=> outcome[2] # None
          /\ LastCall = "exit_json" <=> outcome[2] = None
          /\ LastCall = "exit_json" => log[Len(log)].arg.changed = FALSE

\* a user who is known and not authorized: the failed result
C9_Witness ==
    /\ pc = "exited"
    /\ outcome = <<Alice, NotAuthorizedMsg>>
    /\ Results = {Len(log)}
    /\ LastCall = "fail_json"

\* ---------------------------------------------------------------------
\* The runner's return value (SpecRunner)
\* ---------------------------------------------------------------------

\* C10: what run_command_with_retries returns has exactly one of its two
\* parts set: output a text and error None, or output None and error a
\* non-empty text; so the truth value of error is that of "it failed",
\* also when the output is the empty text.
C10_ResultIsEitherOr ==
    Returned =>
        /\ \/ ret[1] # None /\ ret[2] = None
           \/ ret[1] = None /\ ret[2] # None /\ ret[2] # <<>>
        /\ Truthy(ret[2]) <=> ret[1] = None
        /\ ret[1] # None <=> (rcs # <<>> /\ rcs[Len(rcs)] = 0)

\* a success whose stdout is nothing but whitespace
C10_Witness ==
    /\ Returned
    /\ rcs = <<1, 0>>
    /\ stdout = OutBlank
    /\ ret = <<<<>>, None>>
    /\ ~Truthy(ret[2])

\* ---------------------------------------------------------------------
\* The shape of one call of run_command_with_retries (SpecRunner)
\* ---------------------------------------------------------------------

\* the number of run_command calls among the first i calls of the log
ExecutionsUpTo(i) == Cardinality({j \in 1..i : log[j].op = "run_command"})

\* msg is "Retrying in <d> seconds due to error: <t>" where t is err
\* trimmed and <d> is a decimal numeral of d
IsWarningFor(msg, d, err) ==
    \E i \in 0..Len(err), j \in 0..Len(err) :
        /\ TrimsAt(err, i, j)
        /\ LET t == SubSeq(err, i + 1, Len(err) - j)
               from == Len(RetryingIn) + 1
               to == Len(msg) - Len(SecondsDueToError) - Len(t)
           IN  /\ from <= to
               /\ DecimalValue(SubSeq(msg, from, to)) = d
               /\ msg = RetryingIn \o SubSeq(msg, from, to)
                          \o SecondsDueToError \o t

\* C11: in every state of a call the command has run at most retries
\* times (never, when retries is not positive); an attempt after the first
\* comes right after the delay, the warning and the non-zero exit of the
\* attempt before it; a delay is followed at once by another attempt, so
\* that the call never returns with a delay as its last action.
C11_SequentialAndCapped ==
    /\ NumExecutions <= (IF retries > 0 THEN retries ELSE 0)
    /\ pc \in {"rcwr_test", "rcwr_sleep"} => attempt = NumExecutions - 1
    /\ \A i \in Calls("run_command") :
          i > 1 =>
             /\ i >= 4
             /\ log[i - 1].op = "sleep"
             /\ log[i - 2].op = "warn"
             /\ log[i - 3].op = "run_command"
             /\ RcOf(i - 3) # 0
    /\ \A i \in Calls("sleep") :
          /\ i < Len(log) => log[i + 1].op = "run_command"
          /\ i = Len(log) =>
                /\ pc \in {"rcwr_for", "rcwr_run"}
                /\ NumExecutions < retries
    /\ (Returned /\ log # <<>>) => LastCall = "run_command"

\* four attempts, all failed: three delays, each between two attempts
C11_Witness ==
    /\ Returned
    /\ retries = 4
    /\ rcs = <<1, 1, 1, 1>>
    /\ NumExecutions = 4
    /\ NumDelays = 3
    /\ LastCall = "run_command"

\* C14: a warning is logged once for each attempt that exits non-zero and
\* is not the last allowed one, right after that attempt and right before
\* the delay, and it carries that attempt's stderr, trimmed; a successful
\* attempt and the last allowed attempt log none, so N failures out of N
\* leave N-1 warnings.
C14_WarningPerRetriedFailure ==
    /\ \A i \in Calls("warn") :
          /\ i > 1
          /\ log[i - 1].op = "run_command"
          /\ RcOf(i - 1) # 0
          /\ ExecutionsUpTo(i) < retries
          /\ i < Len(log) => log[i + 1].op = "sleep"
          /\ i = Len(log) => pc = "rcwr_sleep"
    /\ \A i \in Calls("sleep") : i > 1 /\ log[i - 1].op = "warn"
    /\ pc = "rcwr_sleep" =>
          /\ LastCall = "warn"
          /\ IsWarningFor(log[Len(log)].arg, delay, stderr)
    /\ pc # "rcwr_test" =>
          NumWarnings
             = Cardinality({k \in DOMAIN rcs : rcs[k] # 0 /\ k < retries})
    /\ (Returned /\ retries >= 1 /\ Len(rcs) = retries
           /\ \A k \in DOMAIN rcs : rcs[k] # 0)
          => NumWarnings = retries - 1

\* the warning of a second failed attempt, whose stderr has whitespace at
\* both ends, before its delay
C14_Witness ==
    /\ pc = "rcwr_sleep"
    /\ retries = 3
    /\ rcs = <<1, 1>>
    /\ stderr = ErrTimeout
    /\ NumWarnings = 2
    /\ NumDelays = 1
    /\ log[Len(log)].arg
         = RetryingIn \o IntStr(delay) \o SecondsDueToError
             \o <<"t", "i", "m", "e", "o", "u", "t">>

\* C15: the call returns (None, "Unknown error") exactly if retries is
\* not positive, and then it has run no command, warned of nothing and not
\* slept; with retries >= 1 the return is a success or the attempt-count
\* failure.
C15_FallThroughOnlyWithoutAttempts ==
    Returned =>
        /\ ret = <<None, UnknownError>> <=> retries <= 0
        /\ retries <= 0 => log = <<>> /\ rcs = <<>>
        /\ retries >= 1 =>
              /\ rcs # <<>>
              /\ rcs[Len(rcs)] = 0 => ret[1] # None /\ ret[2] = None
              /\ rcs[Len(rcs)] # 0 =>
                    /\ ret[1] = None
                    /\ IsAttemptCountFailure(ret[2], retries, stderr)

C15_Witness ==
    /\ Returned
    /\ retries = 0
    /\ ret = <<None, UnknownError>>
    /\ log = <<>>
    /\ rcs = <<>>

\* ---------------------------------------------------------------------
\* The module run twice against the same mocked host (SpecRerun)
\* ---------------------------------------------------------------------

\* two logged calls are the same call
SameCall(a, b) == a.op = b.op /\ a.arg = b.arg

\* the log l begins with the log k
BeginsWith(l, k) ==
    /\ Len(k) <= Len(l)
    /\ \A i \in DOMAIN k : SameCall(k[i], l[i])

\* the answer to the first run_command of this run that exited 0, which
\* is an answer to the identity command: the permission command is not
\* run before
IdentityAnswer ==
    responses[CHOOSE k \in DOMAIN responses :
                 /\ responses[k][1] = 0
                 /\ \A j \in 1..(k - 1) : responses[j][1] # 0]

IdentityStdout == IdentityAnswer[2]

\* C12: a second run that gets the answers of the first makes the calls
\* of the first, in their order (commands, warnings, delays and the
\* result), asks for no answer the first did not ask for, and its
\* check_cluster_admin returns the pair the first returned.
C12_SameAnswersSameRun ==
    invocation = 2 =>
        /\ BeginsWith(first.log, log)
        /\ Len(responses) <= Len(first.responses)
        /\ responses = SubSeq(first.responses, 1, Len(responses))
        /\ CheckReturned => outcome = first.outcome
        /\ pc = "exited" =>
              /\ Len(log) = Len(first.log)
              /\ responses = first.responses

\* the longest run, repeated: six executions, four delays
C12_Witness ==
    /\ invocation = 2
    /\ pc = "exited"
    /\ Len(responses) = 6
    /\ NumDelays = 4
    /\ Len(log) = Len(first.log)
    /\ outcome = first.outcome
    /\ first.outcome[1] = None

\* C13: the user returned is the identity command's stdout without its
\* leading and trailing whitespace, and it is that text which is compared
\* with "system:admin": an identity output of "  system:admin\n" with
\* a permission output of "no\n" gives ("system:admin", None), and the
\* success message names the trimmed user.
C13_IdentityTrimmedBeforeComparison ==
    (CheckReturned /\ NumSucceeded = 2) =>
        /\ IsTrimOf(outcome[1], IdentityStdout)
        /\ outcome[1] = user
        /\ (IdentityStdout = OutSystemAdmin /\ stdout = OutNo)
              => outcome = <<SystemAdmin, None>>
        /\ (pc = "exited" /\ outcome[2] = None) =>
              /\ LastCall = "exit_json"
              /\ log[Len(log)].arg.message
                   = UserTick \o outcome[1] \o HasPrivileges

C13_Witness ==
    /\ pc = "exited"
    /\ invocation = 1
    /\ NumSucceeded = 2
    /\ IdentityStdout = OutSystemAdmin
    /\ stdout = OutNo
    /\ outcome = <<SystemAdmin, None>>
    /\ LastCall = "exit_json"

\* the failed result names no user: its message has None where the user
\* would be
NamesNoUser(msg) ==
    LET head == CurrentUser \o NoneText \o DoesNotHaveRights
    IN  /\ Len(head) <= Len(msg)
        /\ SubSeq(msg, 1, Len(head)) = head

\* C18: check_cluster_admin returns a user exactly if both commands
\* exited 0, and then the trimmed stdout of the identity attempt that
\* exited 0; when the permission command fails the user returned is None
\* although the identity is known, and the failed result of either
\* command failure names no user.
C18_UserOnlyWhenBothSucceeded ==
    CheckReturned =>
        /\ outcome[1] # None <=> NumSucceeded = 2
        /\ NumSucceeded = 2 => IsTrimOf(outcome[1], IdentityStdout)
        /\ PermissionExhausted =>
              /\ outcome[1] = None
              /\ user # None
              /\ IsTrimOf(user, IdentityStdout)
        /\ (pc = "exited" /\ NumSucceeded < 2) =>
              /\ LastCall = "fail_json"
              /\ NamesNoUser(log[Len(log)].arg.msg)

\* the identity command fails once having printed "no", then prints the
\* identity and exits 0; the permission command fails three times
C18_Witness ==
    /\ pc = "exited"
    /\ PermissionExhausted
    /\ responses[1] = <<1, OutNo, ErrDenied>>
    /\ responses[2][1] = 0
    /\ responses[2][2] = OutSystemAdmin
    /\ user = SystemAdmin
    /\ outcome[1] = None
    /\ NamesNoUser(log[Len(log)].arg.msg)

\* ---------------------------------------------------------------------
\* The retry budget and the end of a run (Spec, SpecLive)
\* ---------------------------------------------------------------------

ExecutionsOf(cmd) ==
    Cardinality({i \in Calls("run_command") : log[i].arg = cmd})

\* C16: each of the two commands has its own three attempts: the
\* identity command runs at most 3 times, the permission command at most
\* 3 times and exactly 3 times when it never exits 0, however many
\* identity attempts failed before; in all at most 6 executions and 4
\* delays.
C16_BudgetPerCommand ==
    /\ ExecutionsOf(UserCommand) <= 3
    /\ ExecutionsOf(CheckAdminCommand) <= 3
    /\ NumExecutions <= 6
    /\ NumDelays <= 4
    /\ (CheckReturned /\ NumSucceeded = 1)
          => ExecutionsOf(CheckAdminCommand) = 3
    /\ (pc = "rcwr_for" /\ (log = <<>> \/ LastCall # "sleep"))
          => attempt = -1

\* two failed identity attempts, then three failed permission attempts
C16_Witness ==
    /\ CheckReturned
    /\ rcs = <<1, 1, 0, 1, 1, 1>>
    /\ ExecutionsOf(UserCommand) = 3
    /\ ExecutionsOf(CheckAdminCommand) = 3
    /\ NumDelays = 4

\* C17: if every step is taken in the end (each command returns, each
\* delay elapses), a run of the module ends having emitted its result,
\* whatever the commands' exit codes.
C17_EventuallyEmits == <>(pc = "exited" /\ Results # {})

\* the run that takes longest: every attempt but the third fails
C17_Witness ==
    /\ pc = "exited"
    /\ rcs = <<1, 1, 0, 1, 1, 1>>
    /\ Results = {Len(log)}

====
